---------------------------- MODULE Spec2Model ----------------------------
(***************************************************************************)
(* Stepping quantum-circuit simulation of src/src/quantumsimulation.py:    *)
(* the entanglement witnesses (detect_entanglement_bipartite,              *)
(* detect_entanglement_tripartite), the stepper SteppingSimInterface.step  *)
(* and the three scenarios SimpleEntanglement, QuantumTeleportation and    *)
(* DeutschJozsa.                                                           *)
(*                                                                         *)
(* Numbers.  A state vector is kept unnormalised, as a function from basis *)
(* index to a Gaussian integer <<re, im>>; its squared norm is computed    *)
(* from it, so every density-matrix entry, purity and Bloch component is   *)
(* an exact rational <<num, den>>.  Rounding to 6 decimals (round,         *)
(* numpy.around) is carried out on those rationals and yields an integer   *)
(* number of millionths.                                                   *)
(***************************************************************************)
EXTENDS Integers, Sequences, FiniteSets, TLC

(***************************************************************************)
(* Integer and rational arithmetic                                         *)
(***************************************************************************)
Abs(x) == IF x < 0 THEN -x ELSE x

RECURSIVE GcdNat(_, _)
GcdNat(a, b) == IF b = 0 THEN a ELSE GcdNat(b, a % b)

Gcd(a, b) == GcdNat(Abs(a), Abs(b))

Lcm(a, b) == (a \div Gcd(a, b)) * b

\* floor of the square root of n >= 0, by bisection of lo .. hi
RECURSIVE ISqrtFrom(_, _, _)
ISqrtFrom(n, lo, hi) ==
    IF lo >= hi THEN lo
    ELSE LET mid == (lo + hi + 1) \div 2
         IN  IF mid * mid <= n THEN ISqrtFrom(n, mid, hi) ELSE ISqrtFrom(n, lo, mid - 1)

ISqrt(n) == ISqrtFrom(n, 0, IF n < 46340 THEN n ELSE 46340)

\* rationals <<num, den>> with den > 0, kept in lowest terms
Rat(n, d) ==
    LET s == IF d < 0 THEN -1 ELSE 1
        g == Gcd(n, d)
    IN  <<(s * n) \div g, (s * d) \div g>>

RInt(n) == <<n, 1>>

RAdd(x, y) ==
    LET l == Lcm(x[2], y[2])
    IN  Rat(x[1] * (l \div x[2]) + y[1] * (l \div y[2]), l)

RNeg(x) == <<-x[1], x[2]>>

RSub(x, y) == RAdd(x, RNeg(y))

RScale(k, x) ==
    LET g == Gcd(k, x[2])
    IN  Rat((k \div g) * x[1], x[2] \div g)

RDiv(x, k) ==
    LET g == Gcd(x[1], k)
    IN  Rat(x[1] \div g, x[2] * (k \div g))

RMul(x, y) ==
    LET g1 == Gcd(x[1], y[2])
        g2 == Gcd(y[1], x[2])
    IN  Rat((x[1] \div g1) * (y[1] \div g2), (x[2] \div g2) * (y[2] \div g1))

\* Gaussian integers <<re, im>>
CZero == <<0, 0>>

CAdd(a, b) == <<a[1] + b[1], a[2] + b[2]>>

CSub(a, b) == <<a[1] - b[1], a[2] - b[2]>>

CNeg(a) == <<-a[1], -a[2]>>

CMul(a, b) == <<a[1] * b[1] - a[2] * b[2], a[1] * b[2] + a[2] * b[1]>>

CConj(a) == <<a[1], -a[2]>>

CScale(k, a) == <<k * a[1], k * a[2]>>

CNorm2(a) == a[1] * a[1] + a[2] * a[2]

(***************************************************************************)
(* Rounding to 6 decimal places                                            *)
(***************************************************************************)
Decimals == 6

\* floor(10^k * r / d) and the remainder, by long division (0 <= r < d)
RECURSIVE LongDiv(_, _, _, _)
LongDiv(q, r, d, k) ==
    IF k = 0 THEN <<q, r>>
    ELSE LongDiv(10 * q + ((10 * r) \div d), (10 * r) % d, d, k - 1)

\* round(x, 6) / numpy.around(x, 6) of a rational x >= 0, in millionths:
\* nearest, ties to even
RoundNonNeg(n, d) ==
    LET w  == n \div d
        qr == LongDiv(w, n % d, d, Decimals)
        q  == qr[1]
        r  == qr[2]
    IN  IF 2 * r > d THEN q + 1
        ELSE IF 2 * r < d THEN q
        ELSE IF q % 2 = 0 THEN q ELSE q + 1

Round6(x) == IF x[1] < 0 THEN -RoundNonNeg(-x[1], x[2]) ELSE RoundNonNeg(x[1], x[2])

(***************************************************************************)
(* The simulator's state: state vectors, gates, measurement                *)
(* (cirq.Simulator.simulate_moment_steps, as used by the stepper)          *)
(***************************************************************************)
Pow2(k) == 2 ^ k

\* position (0-based) of qubit q in the sequence order
Pos(order, q) == (CHOOSE p \in 1..Len(order) : order[p] = q) - 1

\* bit of basis index i at position p of n qubits (big-endian)
Bit(i, p, n) == (i \div Pow2(n - 1 - p)) % 2

SetBit(i, p, n, b) == i + (b - Bit(i, p, n)) * Pow2(n - 1 - p)

Flip(i, p, n) == SetBit(i, p, n, 1 - Bit(i, p, n))

Basis(n) == 0..(Pow2(n) - 1)

\* |0...0>
ZeroState(n) == [i \in Basis(n) |-> IF i = 0 THEN <<1, 0>> ELSE CZero]

\* gcd of the real and imaginary parts of sv[lo] .. sv[hi], by halves
RECURSIVE GcdOver(_, _, _)
GcdOver(sv, lo, hi) ==
    IF lo = hi THEN Gcd(sv[lo][1], sv[lo][2])
    ELSE LET mid == (lo + hi) \div 2
         IN  Gcd(GcdOver(sv, lo, mid), GcdOver(sv, mid + 1, hi))

\* the same ray with the common integer factor of the amplitudes removed
Reduce(sv) ==
    LET g == GcdOver(sv, 0, Cardinality(DOMAIN sv) - 1)
    IN  IF g <= 1 THEN sv
        ELSE [i \in DOMAIN sv |-> <<sv[i][1] \div g, sv[i][2] \div g>>]

\* f[lo] + ... + f[hi], by halves
RECURSIVE SumOver(_, _, _)
SumOver(f, lo, hi) ==
    IF lo > hi THEN 0
    ELSE IF lo = hi THEN f[lo]
    ELSE LET mid == (lo + hi) \div 2
         IN  SumOver(f, lo, mid) + SumOver(f, mid + 1, hi)

RECURSIVE CSumOver(_, _, _)
CSumOver(f, lo, hi) ==
    IF lo > hi THEN CZero
    ELSE IF lo = hi THEN f[lo]
    ELSE LET mid == (lo + hi) \div 2
         IN  CAdd(CSumOver(f, lo, mid), CSumOver(f, mid + 1, hi))

\* squared norm of the unnormalised vector
Norm2(sv) == SumOver([i \in DOMAIN sv |-> CNorm2(sv[i])], 0, Cardinality(DOMAIN sv) - 1)

GateX(sv, n, p) == [i \in Basis(n) |-> sv[Flip(i, p, n)]]

GateZ(sv, n, p) == [i \in Basis(n) |-> IF Bit(i, p, n) = 1 THEN CNeg(sv[i]) ELSE sv[i]]

\* Hadamard, without its factor 1/sqrt(2)
GateH(sv, n, p) ==
    [i \in Basis(n) |->
        IF Bit(i, p, n) = 0
        THEN CAdd(sv[i], sv[Flip(i, p, n)])
        ELSE CSub(sv[Flip(i, p, n)], sv[i])]

GateCNOT(sv, n, c, t) ==
    [i \in Basis(n) |-> IF Bit(i, c, n) = 1 THEN sv[Flip(i, t, n)] ELSE sv[i]]

\* mutant of GateCZ: the correction applied as a controlled NOT
GateCZAsCNOT(sv, n, c, t) == GateCNOT(sv, n, c, t)

GateCZ(sv, n, c, t) ==
    [i \in Basis(n) |->
        IF Bit(i, c, n) = 1 /\ Bit(i, t, n) = 1 THEN CNeg(sv[i]) ELSE sv[i]]

\* X ** t: up to a global phase [[c, -i s], [-i s, c]] with c : s = cos(pi t/2) : sin(pi t/2)
GateXPow(sv, n, p, cs) ==
    [i \in Basis(n) |->
        CAdd(CScale(cs[1], sv[i]), CMul(<<0, -cs[2]>>, sv[Flip(i, p, n)]))]

\* T ** t = Z ** (t/4): diag(1, w) with w = exp(i pi t/4) a Gaussian unit
GateZPow(sv, n, p, w) ==
    [i \in Basis(n) |-> IF Bit(i, p, n) = 1 THEN CMul(w, sv[i]) ELSE sv[i]]

\* index of basis state i of the simulator, read in the order ps of the gate's qubits
RECURSIVE SubIdxFrom(_, _, _, _, _)
SubIdxFrom(i, ps, n, j, acc) ==
    IF j > Len(ps) THEN acc
    ELSE SubIdxFrom(i, ps, n, j + 1, 2 * acc + Bit(i, ps[j], n))

SubIdx(i, ps, n) == SubIdxFrom(i, ps, n, 1, 0)

\* the basis state that has the bits of gate index g at positions ps and those of i elsewhere
RECURSIVE WithSub(_, _, _, _, _)
WithSub(i, g, ps, n, j) ==
    IF j > Len(ps) THEN i
    ELSE WithSub(SetBit(i, ps[j], n, Bit(g, j - 1, Len(ps))), g, ps, n, j + 1)

\* the oracle gate: row r of its matrix has its 1 in column digits[r]
GateOracle(sv, n, ps, digits) ==
    [i \in Basis(n) |-> sv[WithSub(i, digits[SubIdx(i, ps, n) + 1] - 1, ps, n, 1)]]

\* outcomes a measurement of the qubit at position p can give
Outcomes(sv, n, p) == {b \in {0, 1} : \E i \in Basis(n) : Bit(i, p, n) = b /\ sv[i] # CZero}

\* the state after the qubit at position p was measured as b
Collapse(sv, n, p, b) == [i \in Basis(n) |-> IF Bit(i, p, n) = b THEN sv[i] ELSE CZero]

(***************************************************************************)
(* Density matrices and Bloch vectors of a step result                     *)
(* A matrix is [m |-> entries (Gaussian integers), d |-> denominator].     *)
(***************************************************************************)
\* density_matrix_of(qubits at positions ps): entry (a, b) sums sv[i] * conj(sv[j])
\* over the basis states i, j that read a and b at ps and agree elsewhere
density_matrix_of(sv, n, ps) ==
    LET dim == Pow2(Len(ps))
        entry(a, b) ==
            CSumOver([i \in Basis(n) |->
                        IF SubIdx(i, ps, n) = a
                        THEN CMul(sv[i], CConj(sv[WithSub(i, b, ps, n, 1)]))
                        ELSE CZero],
                     0, Pow2(n) - 1)
    IN  [m |-> [ab \in (0..(dim - 1)) \X (0..(dim - 1)) |-> entry(ab[1], ab[2])],
         d |-> Norm2(sv),
         dim |-> dim]

\* numpy.trace(A @ B), real part (float() of a complex drops the imaginary part)
TraceProd(A, B) ==
    LET dim == A.dim
        t == CSumOver([k \in 0..(dim * dim - 1) |->
                         CMul(A.m[<<k \div dim, k % dim>>], B.m[<<k % dim, k \div dim>>])],
                      0, dim * dim - 1)
    IN  Rat(t[1], A.d * B.d)

\* numpy.kron(A, B) of two 2x2 matrices
Kron(A, B) ==
    [m |-> [rc \in (0..3) \X (0..3) |->
              CMul(A.m[<<rc[1] \div 2, rc[2] \div 2>>], B.m[<<rc[1] % 2, rc[2] % 2>>])],
     d |-> A.d * B.d,
     dim |-> 4]

\* bloch_vector_of(q), each component rounded: numpy.around(..., 6), in millionths
bloch_vector_of(sv, n, p) ==
    LET rho == density_matrix_of(sv, n, <<p>>)
    IN  <<Round6(Rat(2 * rho.m[<<0, 1>>][1], rho.d)),
          Round6(Rat(2 * rho.m[<<1, 0>>][2], rho.d)),
          Round6(Rat(rho.m[<<0, 0>>][1] - rho.m[<<1, 1>>][1], rho.d))>>

(***************************************************************************)
(* Python values                                                           *)
(***************************************************************************)
\* None and the empty tuple (), as values distinct from every qubit name
PyNone == "None"

PyEmptyTuple == "()"

\* an optional tuple: None, or a tuple with the given items
NoTuple == [isNone |-> TRUE, items |-> <<>>]

Tuple(items) == [isNone |-> FALSE, items |-> items]

(***************************************************************************)
(* detect_entanglement_tripartite                                          *)
(***************************************************************************)
\* mutant of hdet: the first product of the -2 group is added instead of subtracted
hdetSignSlip(sv) ==
    LET c(x, y, z) == sv[4 * x + 2 * y + z]
        sq(a) == CMul(a, a)
        p4(a, b, cc, d) == CMul(CMul(a, b), CMul(cc, d))
        squares ==
            CAdd(CAdd(CMul(sq(c(0,0,0)), sq(c(1,1,1))), CMul(sq(c(0,0,1)), sq(c(1,1,0)))),
                 CAdd(CMul(sq(c(0,1,0)), sq(c(1,0,1))), CMul(sq(c(1,0,0)), sq(c(0,1,1)))))
        twos ==
            CAdd(CAdd(CAdd(CNeg(p4(c(0,0,0), c(0,0,1), c(1,1,0), c(1,1,1))),
                           p4(c(0,0,0), c(0,1,0), c(1,0,1), c(1,1,1))),
                      CAdd(p4(c(0,0,0), c(0,1,1), c(1,0,0), c(1,1,1)),
                           p4(c(0,0,1), c(0,1,0), c(1,0,1), c(1,1,0)))),
                 CAdd(p4(c(0,0,1), c(0,1,1), c(1,1,0), c(1,0,0)),
                      p4(c(0,1,0), c(0,1,1), c(1,0,1), c(1,0,0))))
        fours ==
            CAdd(p4(c(0,0,0), c(0,1,1), c(1,0,1), c(1,1,0)),
                 p4(c(0,0,1), c(0,1,0), c(1,0,0), c(1,1,1)))
    IN  CAdd(CSub(squares, CScale(2, twos)), CScale(4, fours))

\* the quartic form hdet of the amplitudes cstate[x][y][z] = sv[4x + 2y + z]
hdet(sv) ==
    LET c(x, y, z) == sv[4 * x + 2 * y + z]
        sq(a) == CMul(a, a)
        p4(a, b, cc, d) == CMul(CMul(a, b), CMul(cc, d))
        squares ==
            CAdd(CAdd(CMul(sq(c(0,0,0)), sq(c(1,1,1))), CMul(sq(c(0,0,1)), sq(c(1,1,0)))),
                 CAdd(CMul(sq(c(0,1,0)), sq(c(1,0,1))), CMul(sq(c(1,0,0)), sq(c(0,1,1)))))
        twos ==
            CAdd(CAdd(CAdd(p4(c(0,0,0), c(0,0,1), c(1,1,0), c(1,1,1)),
                           p4(c(0,0,0), c(0,1,0), c(1,0,1), c(1,1,1))),
                      CAdd(p4(c(0,0,0), c(0,1,1), c(1,0,0), c(1,1,1)),
                           p4(c(0,0,1), c(0,1,0), c(1,0,1), c(1,1,0)))),
                 CAdd(p4(c(0,0,1), c(0,1,1), c(1,1,0), c(1,0,0)),
                      p4(c(0,1,0), c(0,1,1), c(1,0,1), c(1,0,0))))
        fours ==
            CAdd(p4(c(0,0,0), c(0,1,1), c(1,0,1), c(1,1,0)),
                 p4(c(0,0,1), c(0,1,0), c(1,0,0), c(1,1,1)))
    IN  CAdd(CSub(squares, CScale(2, twos)), CScale(4, fours))

\* mutant of SqrtI5: i5 taken for its own square root (abs(hdet) ** 2, no sqrt)
SqrtI5NoRoot(sv) ==
    LET h == hdet(sv)
        n2 == Norm2(sv)
    IN  Rat(CNorm2(h), n2 * n2 * n2 * n2)

\* sqrt(i5) = sqrt(abs(hdet) ** 2) of the normalised state
SqrtI5(sv) ==
    LET h == hdet(sv)
        n2 == Norm2(sv)
    IN  Rat(ISqrt(CNorm2(h)), n2 * n2)

\* j1 .. j5, each rounded to 6 decimals (in millionths)
RoundedJ(sv, n, pA, pB, pC) ==
    LET rhoC == density_matrix_of(sv, n, <<pC>>)
        rhoAB == density_matrix_of(sv, n, <<pA, pB>>)
        rhoA == density_matrix_of(sv, n, <<pA>>)
        rhoB == density_matrix_of(sv, n, <<pB>>)
        i1 == TraceProd(rhoA, rhoA)
        i2 == TraceProd(rhoB, rhoB)
        i3 == TraceProd(rhoC, rhoC)
        tensorAB == Kron(rhoA, rhoB)
        i4 == TraceProd(tensorAB, rhoAB)
        s5 == SqrtI5(sv)
        one == RInt(1)
        j1 == RDiv(RSub(RSub(RSub(RAdd(one, i1), i2), i3), RScale(2, s5)), 4)
        j2 == RDiv(RSub(RSub(RAdd(RSub(one, i1), i2), i3), RScale(2, s5)), 4)
        j3 == RDiv(RSub(RAdd(RSub(RSub(one, i1), i2), i3), RScale(2, s5)), 4)
        j4 == s5
        j5 == RDiv(RSub(RAdd(RSub(RSub(RSub(RInt(3), RScale(3, i1)), RScale(3, i2)), i3),
                             RScale(4, i4)), RScale(2, s5)), 4)
    IN  <<Round6(j1), Round6(j2), Round6(j3), Round6(j4), Round6(j5)>>

\* math.isclose(x, 0.0): with the default rel_tol and abs_tol = 0 only 0 is close to 0
IsCloseZero(x) == x = 0

\* mutant of ClassifyRounded: the bipartite cases do not look at j5
ClassifyRoundedLoose(rj, qubits) ==
    LET z(k) == IsCloseZero(rj[k])
    IN  IF z(1) /\ z(2) /\ z(3) /\ z(4) /\ z(5)
        THEN <<FALSE, "fully_separable", NoTuple>>
        ELSE IF ~z(1) /\ z(2) /\ z(3) /\ z(4)
        THEN <<TRUE, "bipartite", Tuple(<<qubits[2], qubits[3]>>)>>
        ELSE IF z(1) /\ ~z(2) /\ z(3) /\ z(4)
        THEN <<TRUE, "bipartite", Tuple(<<qubits[1], qubits[3]>>)>>
        ELSE IF z(1) /\ z(2) /\ ~z(3) /\ z(4)
        THEN <<TRUE, "bipartite", Tuple(<<qubits[1], qubits[2]>>)>>
        ELSE <<TRUE, "tripartite", Tuple(<<qubits[1], qubits[2], qubits[3]>>)>>

\* mutant of ClassifyRounded: the pairs of the cases 2a and 2c exchanged
ClassifyRoundedSwapped(rj, qubits) ==
    LET z(k) == IsCloseZero(rj[k])
    IN  IF z(1) /\ z(2) /\ z(3) /\ z(4) /\ z(5)
        THEN <<FALSE, "fully_separable", NoTuple>>
        ELSE IF ~z(1) /\ z(2) /\ z(3) /\ z(4) /\ z(5)
        THEN <<TRUE, "bipartite", Tuple(<<qubits[1], qubits[2]>>)>>
        ELSE IF z(1) /\ ~z(2) /\ z(3) /\ z(4) /\ z(5)
        THEN <<TRUE, "bipartite", Tuple(<<qubits[1], qubits[3]>>)>>
        ELSE IF z(1) /\ z(2) /\ ~z(3) /\ z(4) /\ z(5)
        THEN <<TRUE, "bipartite", Tuple(<<qubits[2], qubits[3]>>)>>
        ELSE <<TRUE, "tripartite", Tuple(<<qubits[1], qubits[2], qubits[3]>>)>>

\* the five-way case split on the rounded j's; qubits = <<A, B, C>>
ClassifyRounded(rj, qubits) ==
    LET z(k) == IsCloseZero(rj[k])
    IN  IF z(1) /\ z(2) /\ z(3) /\ z(4) /\ z(5)
        THEN <<FALSE, "fully_separable", NoTuple>>
        ELSE IF ~z(1) /\ z(2) /\ z(3) /\ z(4) /\ z(5)
        THEN <<TRUE, "bipartite", Tuple(<<qubits[2], qubits[3]>>)>>
        ELSE IF z(1) /\ ~z(2) /\ z(3) /\ z(4) /\ z(5)
        THEN <<TRUE, "bipartite", Tuple(<<qubits[1], qubits[3]>>)>>
        ELSE IF z(1) /\ z(2) /\ ~z(3) /\ z(4) /\ z(5)
        THEN <<TRUE, "bipartite", Tuple(<<qubits[1], qubits[2]>>)>>
        ELSE <<TRUE, "tripartite", Tuple(<<qubits[1], qubits[2], qubits[3]>>)>>

\* order: the simulator's qubit order; qubits: the three qubits A, B, C
detect_entanglement_tripartite(sv, order, qubits) ==
    ClassifyRounded(RoundedJ(sv, 3, Pos(order, qubits[1]), Pos(order, qubits[2]),
                             Pos(order, qubits[3])),
                    qubits)

(***************************************************************************)
(* detect_entanglement_bipartite                                           *)
(***************************************************************************)
\* The Schmidt coefficients s1 >= s2 of a two-qubit state satisfy
\* s1^2 + s2^2 = 1 and s1 * s2 = |det| / norm2.  The rounded coefficients
\* are (1.0, 0.0) exactly when s2 <= 0.5e-6, and s2 >= |det| / norm2, which
\* for the integer amplitudes of this model is 0 or far above 1e-6.
detect_entanglement_bipartite(sv) ==
    LET det == CSub(CMul(sv[0], sv[3]), CMul(sv[1], sv[2]))
    IN  ~(det = CZero)

(***************************************************************************)
(* The scenarios                                                           *)
(***************************************************************************)
Scenarios == {"SimpleEntanglement", "QuantumTeleportation", "DeutschJozsa"}

\* self.qubits, in the order of the names given to SteppingSimInterface.__init__
qubits(sc) ==
    CASE sc = "SimpleEntanglement" -> <<"alice", "bob">>
      [] sc = "QuantumTeleportation" -> <<"msg", "alice", "bob">>
      [] sc = "DeutschJozsa" -> <<"q1", "q2", "control">>

\* the order of the qubits in the simulator's state vector: simulate_moment_steps
\* is called without a qubit order, so the qubits are sorted by name
qubit_order(sc) ==
    CASE sc = "SimpleEntanglement" -> <<"alice", "bob">>
      [] sc = "QuantumTeleportation" -> <<"alice", "bob", "msg">>
      [] sc = "DeutschJozsa" -> <<"control", "q1", "q2">>

Op(g, on, arg) == [gate |-> g, on |-> on, arg |-> arg]

\* the gates circuit_definition yields, in order; cfg is the scenario's configuration
circuit_definition(sc, cfg) ==
    CASE sc = "SimpleEntanglement" ->
           << Op("H", <<"alice">>, <<>>),
              Op("CNOT", <<"alice", "bob">>, <<>>),
              Op("Z", <<"alice">>, <<>>),
              Op("Z", <<"bob">>, <<>>),
              Op("measure", <<"alice">>, <<>>),
              Op("measure", <<"bob">>, <<>>) >>
      [] sc = "QuantumTeleportation" ->
           << Op(IF cfg.what_gate = "X" THEN "XPow" ELSE "ZPow", <<"msg">>, cfg.phase),
              Op("H", <<"alice">>, <<>>),
              Op("CNOT", <<"alice", "bob">>, <<>>),
              Op("CNOT", <<"msg", "alice">>, <<>>),
              Op("H", <<"msg">>, <<>>),
              Op("measure", <<"msg">>, <<>>),
              Op("measure", <<"alice">>, <<>>),
              Op("CNOT", <<"alice", "bob">>, <<>>),
              Op("CZ", <<"msg", "bob">>, <<>>) >>
      [] sc = "DeutschJozsa" ->
           << Op("X", <<"control">>, <<>>),
              Op("H", <<"q1">>, <<>>),
              Op("H", <<"q2">>, <<>>),
              Op("H", <<"control">>, <<>>),
              Op("oracle", <<"q1", "q2", "control">>, cfg.oracle),
              Op("H", <<"q1">>, <<>>),
              Op("H", <<"q2">>, <<>>),
              Op("H", <<"control">>, <<>>),
              Op("measure", <<"q1">>, <<>>),
              Op("measure", <<"q2">>, <<>>),
              Op("measure", <<"control">>, <<>>) >>

\* mutant of InsertNew: a gate joins the last moment when that moment does not
\* touch its qubits (as without strategy=InsertStrategy.NEW)
RECURSIVE InsertPackedFrom(_, _, _)
InsertPackedFrom(ops, k, acc) ==
    IF k > Len(ops) THEN acc
    ELSE LET last == IF acc = <<>> THEN <<>> ELSE acc[Len(acc)]
             used == UNION {{last[j].on[i] : i \in 1..Len(last[j].on)} : j \in 1..Len(last)}
             mine == {ops[k].on[i] : i \in 1..Len(ops[k].on)}
         IN  IF acc # <<>> /\ used \cap mine = {}
             THEN InsertPackedFrom(ops, k + 1,
                      [acc EXCEPT ![Len(acc)] = Append(last, ops[k])])
             ELSE InsertPackedFrom(ops, k + 1, Append(acc, <<ops[k]>>))

InsertPacked(ops) == InsertPackedFrom(ops, 1, <<>>)

\* Circuit(ops, strategy=InsertStrategy.NEW): every yielded gate opens a moment of
\* its own; a moment is the sequence of the operations applied together
InsertNew(ops) == [k \in 1..Len(ops) |-> <<ops[k]>>]

\* self.circuit, as its sequence of moments
Circuit(sc, cfg) == InsertNew(circuit_definition(sc, cfg))

description_sequence(sc) ==
    CASE sc = "SimpleEntanglement" ->
           << "Ustawienie kubitow w stan Bella",
              "Ustawienie kubitow w stan Bella",
              "Operacja na kubicie splatanym Alicji",
              "Operacja na kubicie splatanym Boba",
              "Pomiar kubitu Alicji",
              "Pomiar kubitu Boba" >>
      [] sc = "QuantumTeleportation" ->
           << "Ustawianie wartosci poczatkowej kubitow",
              "Inicjalizacja kubitow Alicji i Boba w stan Bella",
              "Inicjalizacja kubitow Alicji i Boba w stan Bella",
              "Wprowadzenie kubitu teleportowanego w stan superpozycji",
              "Wprowadzenie kubitu teleportowanego w stan superpozycji",
              "Pomiar kubitow Alicji i Boba",
              "Pomiar kubitow Alicji i Boba",
              "Aplikacja korekcji stanu",
              "Aplikacja korekcji stanu" >>
      [] sc = "DeutschJozsa" ->
           << "Ustawienie kubitu kontrolnego w stan |1>",
              "Zadzialanie na wszystkie kubity bramka Hadamarda",
              "Zadzialanie na wszystkie kubity bramka Hadamarda",
              "Zadzialanie na wszystkie kubity bramka Hadamarda",
              "Dzialanie wyroczni",
              "Ponowne dzialanie bramkami Hadamarda",
              "Ponowne dzialanie bramkami Hadamarda",
              "Ponowne dzialanie bramkami Hadamarda",
              "Koncowy pomiar",
              "Koncowy pomiar",
              "Koncowy pomiar" >>

\* mutant of measurements: the teleportation schedule names msg one moment early
measurementsEarly(sc) ==
    CASE sc = "SimpleEntanglement" ->
           << PyNone, PyNone, PyNone, PyNone, "alice", "bob" >>
      [] sc = "QuantumTeleportation" ->
           << PyNone, PyNone, PyNone, PyNone, "msg", "alice", PyNone, PyNone, PyNone >>
      [] sc = "DeutschJozsa" ->
           << PyEmptyTuple, PyEmptyTuple, PyEmptyTuple, PyEmptyTuple, PyEmptyTuple,
              PyEmptyTuple, PyEmptyTuple, PyEmptyTuple, "q1", "q2", "control" >>

measurements(sc) ==
    CASE sc = "SimpleEntanglement" ->
           << PyNone, PyNone, PyNone, PyNone, "alice", "bob" >>
      [] sc = "QuantumTeleportation" ->
           << PyNone, PyNone, PyNone, PyNone, PyNone, "msg", "alice", PyNone, PyNone >>
      [] sc = "DeutschJozsa" ->
           << PyEmptyTuple, PyEmptyTuple, PyEmptyTuple, PyEmptyTuple, PyEmptyTuple,
              PyEmptyTuple, PyEmptyTuple, PyEmptyTuple, "q1", "q2", "control" >>

\* the simulator applies one operation to the state; b is the outcome of a measurement
ApplyOp(op, sv, order, b) ==
    LET n == Len(order)
        p(k) == Pos(order, op.on[k])
    IN  CASE op.gate = "H" -> GateH(sv, n, p(1))
          [] op.gate = "X" -> GateX(sv, n, p(1))
          [] op.gate = "Z" -> GateZ(sv, n, p(1))
          [] op.gate = "CNOT" -> GateCNOT(sv, n, p(1), p(2))
          [] op.gate = "CZ" -> GateCZ(sv, n, p(1), p(2))
          [] op.gate = "XPow" -> GateXPow(sv, n, p(1), op.arg)
          [] op.gate = "ZPow" -> GateZPow(sv, n, p(1), op.arg)
          [] op.gate = "oracle" -> GateOracle(sv, n, <<p(1), p(2), p(3)>>, op.arg)
          [] op.gate = "measure" -> Collapse(sv, n, p(1), b)

\* the outcomes the operation can have (a gate has one)
OpOutcomes(op, sv, order) ==
    IF op.gate = "measure" THEN Outcomes(sv, Len(order), Pos(order, op.on[1])) ELSE {0}

\* detect_entanglement of each scenario, on the state of a simulation step
detect_entanglement(sc, sv) ==
    IF sc = "SimpleEntanglement"
    THEN \* return a, (b if cond else ()): a pair whose second item is bob or ()
         Tuple(<<"alice", IF detect_entanglement_bipartite(sv) THEN "bob" ELSE PyEmptyTuple>>)
    ELSE LET r == detect_entanglement_tripartite(sv, qubit_order(sc), qubits(sc))
         IN  IF r[1] THEN r[3] ELSE NoTuple

\* the simulator applies the operations of one moment; bs[k] is the outcome of the
\* k-th operation if it is a measurement
RECURSIVE ApplyMoment(_, _, _, _, _)
ApplyMoment(moment, sv, order, bs, k) ==
    IF k > Len(moment) THEN sv
    ELSE ApplyMoment(moment, Reduce(ApplyOp(moment[k], sv, order, bs[k])), order, bs, k + 1)

\* the outcome sequences a moment can have from state sv
RECURSIVE Possible(_, _, _, _, _)
Possible(moment, sv, order, bs, k) ==
    \/ k > Len(moment)
    \/ /\ k <= Len(moment)
       /\ bs[k] \in OpOutcomes(moment[k], sv, order)
       /\ Possible(moment, Reduce(ApplyOp(moment[k], sv, order, bs[k])), order, bs, k + 1)

MomentOutcomes(moment, sv, order) ==
    {bs \in [1..Len(moment) -> {0, 1}] :
        /\ \A k \in 1..Len(moment) : moment[k].gate # "measure" => bs[k] = 0
        /\ Possible(moment, sv, order, bs, 1)}

(***************************************************************************)
(* Configurations                                                          *)
(***************************************************************************)
\* largest numerator of the phase angles of the X gate
MaxPhase == 2

\* number of calls of step() after the moments are exhausted
MaxStops == 2

\* phases t of X ** t, given as <<c, s>> with c : s = cos(pi t/2) : sin(pi t/2)
XPhases == {cs \in (-MaxPhase..MaxPhase) \X (-MaxPhase..MaxPhase) : cs # <<0, 0>>}

\* phases t of T ** t with exp(i pi t/4) a Gaussian unit: t = 0, 2, 4, 6
TPhases == {<<1, 0>>, <<0, 1>>, <<-1, 0>>, <<0, -1>>}

\* the configuration string of |x1 x2 c> -> |x1 x2 (c xor f(x1, x2))>, f given by its
\* four values f[0] .. f[3]
OracleOf(f) ==
    [r \in 1..8 |->
        LET x == (r - 1) \div 2
            c == (r - 1) % 2
        IN  2 * x + ((c + f[x]) % 2) + 1]

\* the identity configuration "12345678" with the digits at places a and b exchanged
Swapped(a, b) == [r \in 1..8 |-> IF r = a THEN b ELSE IF r = b THEN a ELSE r]

Oracles ==
    {OracleOf(f) : f \in [0..3 -> {0, 1}]} \cup
    {Swapped(a, b) : a \in 1..8, b \in 1..8}

NoConfig == [what_gate |-> "-", phase |-> <<0, 0>>, oracle |-> <<>>]

Configs(sc) ==
    CASE sc = "SimpleEntanglement" -> {NoConfig}
      [] sc = "QuantumTeleportation" ->
           {[what_gate |-> "X", phase |-> ph, oracle |-> <<>>] : ph \in XPhases} \cup
           {[what_gate |-> "T", phase |-> ph, oracle |-> <<>>] : ph \in TPhases}
      [] sc = "DeutschJozsa" ->
           {[what_gate |-> "-", phase |-> <<0, 0>>, oracle |-> o] : o \in Oracles}

(***************************************************************************)
(* The stepper: SteppingSimInterface                                       *)
(***************************************************************************)
VARIABLES
    scenario,             \* which subclass was constructed
    config,               \* its constructor arguments
    sim_state,            \* the state vector the simulator holds
    sim_iter,             \* self._sim_iter: number of moments already yielded
    desc_iter,            \* self._desc: number of descriptions already yielded
    measurements_iter,    \* self._measurements: number of entries already yielded
    bloch_states,         \* self.bloch_states
    currently_entangled,  \* self.currently_entangled
    emitted,              \* the triples step() has yielded so far
    stops,                \* how often step() has signalled the end of the sequence
    measurement_log,      \* the simulator's measurement results: <<key, bit>> in order
    witness_in,           \* a state vector given to detect_entanglement_tripartite
    witness_out,          \* its result
    rounded_in,           \* rounded j1 .. j5 given to the case split
    rounded_out,          \* its result
    window                \* the DeutschJozsaWindow: line edit, simulator, buttons, log

vars == <<scenario, config, sim_state, sim_iter, desc_iter, measurements_iter,
          bloch_states, currently_entangled, emitted, stops, measurement_log,
          witness_in, witness_out, rounded_in, rounded_out, window>>

stepper_vars == <<scenario, config, sim_state, sim_iter, desc_iter, measurements_iter,
                  bloch_states, currently_entangled, emitted, stops, measurement_log>>

witness_vars == <<witness_in, witness_out>>

rounded_vars == <<rounded_in, rounded_out>>

NoResult == <<FALSE, "none", NoTuple>>

NoInput == [kind |-> "none", order |-> <<>>, sv |-> <<>>, pair |-> <<>>]

WitnessIdle ==
    /\ witness_in = NoInput
    /\ witness_out = NoResult

\* no window is open
NoWindow ==
    [text |-> <<>>, sim_set |-> FALSE, sim_oracle |-> <<>>, setup_button |-> FALSE,
     step_button |-> FALSE, deutschSetup_visible |-> FALSE, log |-> <<>>,
     raised |-> "none", clicks |-> 0]

WindowIdle == window = NoWindow

RoundedIdle ==
    /\ rounded_in = <<>>
    /\ rounded_out = NoResult

\* SteppingSimInterface.__init__
Construct(sc, cfg) ==
    /\ scenario = sc
    /\ config = cfg
    /\ sim_state = ZeroState(Len(qubits(sc)))
    /\ sim_iter = 0
    /\ desc_iter = 0
    /\ measurements_iter = 0
    /\ bloch_states = <<>>
    /\ currently_entangled = {}
    /\ emitted = <<>>
    /\ stops = 0
    /\ measurement_log = <<>>

Init ==
    /\ \E sc \in Scenarios : \E cfg \in Configs(sc) : Construct(sc, cfg)
    /\ WitnessIdle
    /\ RoundedIdle
    /\ WindowIdle

\* mutant of UpdateEntangled: the set is cleared only when the removal empties it
UpdateEntangledNoClear(ce, entangled, measured) ==
    LET added == IF entangled.isNone THEN ce
                 ELSE ce \cup {entangled.items[k] : k \in 1..Len(entangled.items)}
    IN  IF measured # PyNone /\ measured \in added
        THEN LET removed == added \ {measured}
             IN  IF Cardinality(removed) < 1 THEN {} ELSE removed
        ELSE added

\* the update of self.currently_entangled in step(): entangled is the detector's
\* result, measured the entry of the measurement schedule
UpdateEntangled(ce, entangled, measured) ==
    LET added == IF entangled.isNone THEN ce
                 ELSE ce \cup {entangled.items[k] : k \in 1..Len(entangled.items)}
    IN  IF measured # PyNone /\ measured \in added
        THEN LET removed == added \ {measured}
             IN  IF Cardinality(removed) <= 1 THEN {} ELSE removed
        ELSE added

\* the results detect_entanglement can return in a scenario
Verdicts(sc) ==
    IF sc = "SimpleEntanglement"
    THEN {Tuple(<<"alice", "bob">>), Tuple(<<"alice", PyEmptyTuple>>)}
    ELSE LET q == qubits(sc)
         IN  {NoTuple, Tuple(<<q[2], q[3]>>), Tuple(<<q[1], q[3]>>), Tuple(<<q[1], q[2]>>),
              Tuple(<<q[1], q[2], q[3]>>)}

\* the measurement results of the moment, added to those the simulator holds: the key
\* of measure(q) is the name of q, bs[k] the outcome of the k-th operation
RECURSIVE LogMeasurements(_, _, _, _)
LogMeasurements(log, moment, bs, k) ==
    IF k > Len(moment) THEN log
    ELSE LogMeasurements(IF moment[k].gate = "measure"
                         THEN Append(log, <<moment[k].on[1], bs[k]>>) ELSE log,
                         moment, bs, k + 1)

\* the object step() yields as third component: the attribute itself, which the
\* following steps change in place with add, remove and clear
YieldedObject == "self.currently_entangled"

\* what the set of an emitted triple contains in the current state
ContentsNow(triple) ==
    IF triple.entangled_is = "self.currently_entangled"
    THEN currently_entangled
    ELSE triple.entangled

\* step(), first half: the simulator yields the moment's state next_state and the
\* Bloch vectors of all qubits are recorded
StepRecord(next_state) ==
    LET qs == qubits(scenario)
        order == qubit_order(scenario)
        bloch_vectors == [k \in 1..Len(qs) |->
                            bloch_vector_of(next_state, Len(order), Pos(order, qs[k]))]
    IN  /\ sim_state' = next_state
        /\ sim_iter' = sim_iter + 1
        /\ bloch_states' = Append(bloch_states, bloch_vectors)
        /\ UNCHANGED <<scenario, config>>

\* step(), second half: the schedule entry is taken, the entangled set updated with
\* the detector's result entangled, and the triple yielded
StepTrack(entangled) ==
    LET sc == scenario
        has_measured == measurements_iter < Len(measurements(sc))
        measured == measurements(sc)[measurements_iter + 1]
        has_desc == desc_iter < Len(description_sequence(sc))
        ce == UpdateEntangled(currently_entangled, entangled, measured)
    IN  IF ~has_measured
        THEN \* next(self._measurements) raises StopIteration: step() returns
             /\ stops' = stops + 1
             /\ UNCHANGED <<measurements_iter, desc_iter, currently_entangled, emitted>>
        ELSE /\ measurements_iter' = measurements_iter + 1
             /\ currently_entangled' = ce
             /\ IF ~has_desc
                THEN \* next(self._desc) raises StopIteration: step() returns
                     /\ stops' = stops + 1
                     /\ UNCHANGED <<desc_iter, emitted>>
                ELSE /\ desc_iter' = desc_iter + 1
                     /\ emitted' = Append(emitted,
                            [moment |-> sim_iter + 1,
                             description |-> description_sequence(sc)[desc_iter + 1],
                             entangled |-> ce,
                             entangled_is |-> YieldedObject])
                     /\ UNCHANGED stops

\* step(), a moment is left: the simulator yields it, the witness is computed on it
step ==
    /\ sim_iter < Len(Circuit(scenario, config))
    /\ stops < MaxStops
    /\ LET moment == Circuit(scenario, config)[sim_iter + 1]
           order == qubit_order(scenario)
       IN  \E bs \in MomentOutcomes(moment, sim_state, order) :
              LET next_state == ApplyMoment(moment, sim_state, order, bs, 1)
              IN  /\ StepRecord(next_state)
                  /\ measurement_log' = LogMeasurements(measurement_log, moment, bs, 1)
                  /\ StepTrack(detect_entanglement(scenario, next_state))
    /\ UNCHANGED <<witness_vars, rounded_vars, window>>

\* mutant of step_exhausted: the end of the sequence resets the entangled set
step_exhausted_clearing ==
    /\ sim_iter = Len(Circuit(scenario, config))
    /\ stops < MaxStops
    /\ stops' = stops + 1
    /\ currently_entangled' = {}
    /\ UNCHANGED <<scenario, config, sim_state, sim_iter, desc_iter, measurements_iter,
                   bloch_states, emitted, measurement_log>>
    /\ UNCHANGED <<witness_vars, rounded_vars, window>>

\* step(), no moment is left: next(self._sim_iter) raises StopIteration, which
\* step() catches and returns, so the caller sees the end of the sequence
step_exhausted ==
    /\ sim_iter = Len(Circuit(scenario, config))
    /\ stops < MaxStops
    /\ stops' = stops + 1
    /\ UNCHANGED <<scenario, config, sim_state, sim_iter, desc_iter, measurements_iter,
                   bloch_states, currently_entangled, emitted, measurement_log>>
    /\ UNCHANGED <<witness_vars, rounded_vars, window>>

Next == step \/ step_exhausted

Spec == Init /\ [][Next]_vars

\* step() with the detector's result left open: any value detect_entanglement can
\* return in the scenario
step_free ==
    /\ sim_iter < Len(Circuit(scenario, config))
    /\ stops < MaxStops
    /\ LET moment == Circuit(scenario, config)[sim_iter + 1]
           order == qubit_order(scenario)
       IN  \E bs \in MomentOutcomes(moment, sim_state, order) :
              /\ StepRecord(ApplyMoment(moment, sim_state, order, bs, 1))
              /\ measurement_log' = LogMeasurements(measurement_log, moment, bs, 1)
              /\ \E entangled \in Verdicts(scenario) : StepTrack(entangled)
    /\ UNCHANGED <<witness_vars, rounded_vars, window>>

NextFree == step_free \/ step_exhausted

\* the verdicts being open, one configuration of each kind is constructed
FreeConfigs(sc) ==
    CASE sc = "SimpleEntanglement" -> {NoConfig}
      [] sc = "QuantumTeleportation" ->
           {[what_gate |-> "X", phase |-> <<1, 1>>, oracle |-> <<>>],
            [what_gate |-> "T", phase |-> <<0, 1>>, oracle |-> <<>>]}
      [] sc = "DeutschJozsa" ->
           {[what_gate |-> "-", phase |-> <<0, 0>>, oracle |-> o] :
               o \in {Swapped(1, 1), Swapped(1, 8)}}

InitFree ==
    /\ \E sc \in Scenarios : \E cfg \in FreeConfigs(sc) : Construct(sc, cfg)
    /\ WitnessIdle
    /\ RoundedIdle
    /\ WindowIdle

\* the stepper under every sequence of witness verdicts
SpecFree == InitFree /\ [][NextFree]_vars

\* final_step.measurements[key][0]
MeasurementOf(log, key) ==
    LET k == CHOOSE j \in 1..Len(log) : log[j][1] = key
    IN  log[k][2]

\* mutant of check_results: DeutschJozsa accepts when either input qubit measured 0
check_results_either ==
    CASE scenario = "SimpleEntanglement" -> TRUE
      [] scenario = "QuantumTeleportation" ->
           bloch_states[1][1] = bloch_states[Len(bloch_states)][3]
      [] scenario = "DeutschJozsa" ->
           \/ MeasurementOf(measurement_log, "q1") = 0
           \/ MeasurementOf(measurement_log, "q2") = 0

\* check_results of the scenario, called once the steps are exhausted
check_results ==
    CASE scenario = "SimpleEntanglement" -> TRUE
      [] scenario = "QuantumTeleportation" ->
           bloch_states[1][1] = bloch_states[Len(bloch_states)][3]
      [] scenario = "DeutschJozsa" ->
           /\ MeasurementOf(measurement_log, "q1") = 0
           /\ MeasurementOf(measurement_log, "q2") = 0

NumMoments == Len(Circuit(scenario, config))

Exhausted == stops > 0

QubitSet(sc) == {qubits(sc)[k] : k \in 1..Len(qubits(sc))}

(***************************************************************************)
(* C1: after any completed step() the entangled set, and every set a step  *)
(* emitted, has no member or at least two; it never has exactly one.       *)
(***************************************************************************)
EntangledSetNeverSingle ==
    /\ Cardinality(currently_entangled) # 1
    /\ \A k \in 1..Len(emitted) : Cardinality(emitted[k].entangled) # 1

\* a measurement removed a qubit from a set of two, and the set was cleared
EntangledSetWasCleared ==
    /\ currently_entangled = {}
    /\ Len(emitted) >= 2
    /\ Cardinality(emitted[Len(emitted) - 1].entangled) = 2
    /\ measurements(scenario)[Len(emitted)] \in emitted[Len(emitted) - 1].entangled

(***************************************************************************)
(* C2: every member of the entangled set, and of every emitted set, is one *)
(* of the scenario's qubits.                                               *)
(***************************************************************************)
EntangledAreQubits ==
    /\ currently_entangled \subseteq QubitSet(scenario)
    /\ \A k \in 1..Len(emitted) : emitted[k].entangled \subseteq QubitSet(scenario)

(***************************************************************************)
(* C3: the steps emit one triple per circuit moment (6, 9, 11), the k-th   *)
(* with the k-th moment and description; the end of the sequence is        *)
(* signalled only after the last moment, and nothing is emitted after it.  *)
(***************************************************************************)
ExpectedMoments ==
    CASE scenario = "SimpleEntanglement" -> 6
      [] scenario = "QuantumTeleportation" -> 9
      [] scenario = "DeutschJozsa" -> 11

OneTriplePerMomentState ==
    /\ Len(emitted) = sim_iter
    /\ Len(emitted) <= ExpectedMoments
    /\ \A k \in 1..Len(emitted) :
          /\ emitted[k].moment = k
          /\ emitted[k].description = description_sequence(scenario)[k]
    /\ Exhausted => Len(emitted) = ExpectedMoments
    /\ (Len(emitted) = ExpectedMoments /\ stops < MaxStops) => ENABLED step_exhausted
    /\ Len(emitted) < ExpectedMoments => ~ENABLED step_exhausted

OneTriplePerMoment ==
    /\ []OneTriplePerMomentState
    /\ [][Exhausted => emitted' = emitted]_vars

AllMomentsEmitted ==
    /\ scenario = "DeutschJozsa"
    /\ Len(emitted) = 11
    /\ stops = 2

(***************************************************************************)
(* C4: a step() that finds no moment left -- the one that signals the end  *)
(* of the sequence for the first time and every one after it -- changes    *)
(* neither bloch_states nor currently_entangled and consumes no            *)
(* description and no schedule entry; it only signals the end.             *)
(***************************************************************************)
ExhaustedStepIsNoOp ==
    [][(Exhausted \/ sim_iter = NumMoments) =>
          /\ bloch_states' = bloch_states
          /\ currently_entangled' = currently_entangled
          /\ desc_iter' = desc_iter
          /\ measurements_iter' = measurements_iter
          /\ sim_iter' = sim_iter
          /\ emitted' = emitted
          /\ stops' = stops + 1]_vars

SteppedAfterExhausted ==
    /\ stops >= 2
    /\ currently_entangled # {}
    /\ bloch_states # <<>>

(***************************************************************************)
(* C5: descriptions and schedule have one entry per moment, each moment    *)
(* holds one gate, the schedule names a qubit exactly at the moment that   *)
(* measures it, and a step with any other entry removes nothing from the   *)
(* entangled set.                                                          *)
(***************************************************************************)
ScheduleMatchesCircuit ==
    LET c == Circuit(scenario, config)
        ops == circuit_definition(scenario, config)
        m == measurements(scenario)
    IN  /\ Len(c) = Len(ops)
        /\ \A k \in 1..Len(c) : Len(c[k]) = 1
        /\ Len(description_sequence(scenario)) = Len(c)
        /\ Len(m) = Len(c)
        /\ \A k \in 1..Len(c) :
              /\ \A q \in QubitSet(scenario) :
                    m[k] = q <=> (c[k][1].gate = "measure" /\ c[k][1].on = <<q>>)
              /\ m[k] \notin QubitSet(scenario) => m[k] \in {PyNone, PyEmptyTuple}

ScheduleInLockStep ==
    /\ []ScheduleMatchesCircuit
    /\ [][(measurements_iter' = measurements_iter + 1
           /\ measurements(scenario)[measurements_iter'] \notin QubitSet(scenario))
          => currently_entangled \subseteq currently_entangled']_vars

\* a step without measurement was taken while qubits were entangled
UnmeasuredStepKeptSet ==
    /\ scenario = "DeutschJozsa"
    /\ measurements_iter = 7
    /\ measurements(scenario)[7] = PyEmptyTuple
    /\ Len(emitted) = 7
    /\ emitted[6].entangled # {}
    /\ emitted[6].entangled \subseteq currently_entangled

(***************************************************************************)
(* C10: in the teleportation scenario, once all nine moments are stepped,  *)
(* check_results() is true: the msg qubit's Bloch vector of the first step *)
(* equals the bob qubit's Bloch vector of the last step.                   *)
(***************************************************************************)
TeleportationSucceeds ==
    (scenario = "QuantumTeleportation" /\ sim_iter = NumMoments) => check_results

\* a state off the z axis was teleported with both measurements giving 1
TeleportedWithBothOnes ==
    /\ scenario = "QuantumTeleportation"
    /\ config.what_gate = "X"
    /\ sim_iter = NumMoments
    /\ bloch_states[1][1] = <<0, -800000, -600000>>
    /\ bloch_states[9][1] = <<0, 0, -1000000>>
    /\ bloch_states[9][2] = <<0, 0, -1000000>>
    /\ bloch_states[9][3] = <<0, -800000, -600000>>

(***************************************************************************)
(* detect_entanglement_tripartite on given three-qubit states              *)
(***************************************************************************)
\* largest integer part of the amplitudes of qubit A in a product state
MaxAmp == 1

\* largest rounded j (in millionths) given to the case split
MaxRounded == 1

ABC == <<"A", "B", "C">>

\* orders of the state vector: that of the arguments, and those in which the
\* scenarios call the function (msg, alice, bob sorted; q1, q2, control sorted)
WitnessOrders == {<<"A", "B", "C">>, <<"B", "C", "A">>, <<"C", "A", "B">>}

\* single-qubit states <<amplitude of |0>, amplitude of |1>>>
StatesA ==
    {<<<<a0, 0>>, <<x, y>>>> : a0 \in 0..1, x \in -MaxAmp..MaxAmp, y \in -MaxAmp..MaxAmp}
    \ {<<CZero, CZero>>}

StatesB == {<<<<1, 0>>, CZero>>, <<CZero, <<1, 0>>>>, <<<<1, 0>>, <<1, 0>>>>, <<<<1, 0>>, <<-1, 0>>>>}

StatesC == {<<<<1, 0>>, CZero>>, <<CZero, <<1, 0>>>>, <<<<1, 0>>, <<0, 1>>>>, <<<<1, 0>>, <<0, -1>>>>}

\* |psiA> x |psiB> x |psiC>, written in the given order of the state vector
ProductState(psiA, psiB, psiC, order) ==
    [i \in Basis(3) |->
        CMul(CMul(psiA[Bit(i, Pos(order, "A"), 3) + 1], psiB[Bit(i, Pos(order, "B"), 3) + 1]),
             psiC[Bit(i, Pos(order, "C"), 3) + 1])]

\* (|00> + |11>) on the qubits of pair, the remaining qubit in basis state b
BellState(pair, b, order) ==
    LET third == CHOOSE q \in {"A", "B", "C"} : q # pair[1] /\ q # pair[2]
    IN  [i \in Basis(3) |->
            IF /\ Bit(i, Pos(order, pair[1]), 3) = Bit(i, Pos(order, pair[2]), 3)
               /\ Bit(i, Pos(order, third), 3) = b
            THEN <<1, 0>> ELSE CZero]

\* |000> + |111>
GHZState == [i \in Basis(3) |-> IF i = 0 \/ i = 7 THEN <<1, 0>> ELSE CZero]

WitnessInputs ==
    {[kind |-> "product", order |-> o, sv |-> Reduce(ProductState(a, b, c, o)), pair |-> <<>>] :
        a \in StatesA, b \in StatesB, c \in StatesC, o \in WitnessOrders}
    \cup
    {[kind |-> "bell", order |-> o, sv |-> BellState(pr, b, o), pair |-> pr] :
        pr \in {<<"A", "B">>, <<"A", "C">>, <<"B", "C">>}, b \in {0, 1}, o \in WitnessOrders}
    \cup
    {[kind |-> "ghz", order |-> o, sv |-> GHZState, pair |-> <<>>] : o \in WitnessOrders}

IdleStepper == Construct("SimpleEntanglement", NoConfig)

InitWitness ==
    /\ IdleStepper
    /\ witness_in \in WitnessInputs
    /\ witness_out = NoResult
    /\ RoundedIdle
    /\ WindowIdle

\* a call of detect_entanglement_tripartite(result, (A, B, C))
detect_tripartite ==
    /\ witness_in # NoInput
    /\ witness_out = NoResult
    /\ witness_out' = detect_entanglement_tripartite(witness_in.sv, witness_in.order, ABC)
    /\ UNCHANGED <<witness_in, stepper_vars, rounded_vars, window>>

NextWitness == detect_tripartite

SpecWitness == InitWitness /\ [][NextWitness]_vars

InitCases ==
    /\ IdleStepper
    /\ WitnessIdle
    /\ WindowIdle
    /\ rounded_in \in [1..5 -> -MaxRounded..MaxRounded]
    /\ rounded_out = NoResult

\* the case split of detect_entanglement_tripartite on given rounded j1 .. j5
classify ==
    /\ rounded_in # <<>>
    /\ rounded_out = NoResult
    /\ rounded_out' = ClassifyRounded(rounded_in, ABC)
    /\ UNCHANGED <<rounded_in, stepper_vars, witness_vars, window>>

NextCases == classify

SpecCases == InitCases /\ [][NextCases]_vars

(***************************************************************************)
(* C6: the case split maps every combination of zero and non-zero rounded  *)
(* j1 .. j5 to one verdict: none non-zero -> fully separable; only j1 ->   *)
(* bipartite {B, C}; only j2 -> {A, C}; only j3 -> {A, B}; anything else   *)
(* -> tripartite {A, B, C}.  isEntangled is false exactly for              *)
(* fully_separable; two qubits are implicated for bipartite, three for     *)
(* tripartite.                                                             *)
(***************************************************************************)
NonZeroJ == {k \in 1..5 : rounded_in[k] # 0}

Implicated(r) == {r[3].items[k] : k \in 1..Len(r[3].items)}

CaseSplitIsTotal ==
    rounded_out # NoResult =>
        /\ NonZeroJ = {} => rounded_out = <<FALSE, "fully_separable", NoTuple>>
        /\ NonZeroJ = {1} => rounded_out = <<TRUE, "bipartite", Tuple(<<"B", "C">>)>>
        /\ NonZeroJ = {2} => rounded_out = <<TRUE, "bipartite", Tuple(<<"A", "C">>)>>
        /\ NonZeroJ = {3} => rounded_out = <<TRUE, "bipartite", Tuple(<<"A", "B">>)>>
        /\ NonZeroJ \notin {{}, {1}, {2}, {3}} =>
              rounded_out = <<TRUE, "tripartite", Tuple(<<"A", "B", "C">>)>>
        /\ rounded_out[1] = FALSE <=> rounded_out[2] = "fully_separable"
        /\ rounded_out[2] = "fully_separable" => rounded_out[3].isNone
        /\ rounded_out[2] = "bipartite" => Cardinality(Implicated(rounded_out)) = 2
        /\ rounded_out[2] = "tripartite" => Cardinality(Implicated(rounded_out)) = 3

\* j3 and j5 non-zero: no bipartite case applies
MixedCaseClassified ==
    /\ rounded_in = <<0, 0, 1, 0, -1>>
    /\ rounded_out = <<TRUE, "tripartite", Tuple(<<"A", "B", "C">>)>>

(***************************************************************************)
(* C7: for a Bell pair (|00> + |11>)/sqrt 2 on two qubits and a basis      *)
(* state on the third the result is bipartite, implicating exactly the two *)
(* qubits of the pair.                                                     *)
(***************************************************************************)
BellPairIsBipartite ==
    (witness_in.kind = "bell" /\ witness_out # NoResult) =>
        /\ witness_out[1] = TRUE
        /\ witness_out[2] = "bipartite"
        /\ ~witness_out[3].isNone
        /\ Implicated(witness_out) = {witness_in.pair[1], witness_in.pair[2]}

\* the pair on A, B with C = |0>, as the state vector of the teleportation order
BellABDetected ==
    /\ witness_in.kind = "bell"
    /\ witness_in.pair = <<"A", "B">>
    /\ witness_in.order = <<"B", "C", "A">>
    /\ witness_in.sv[0] = <<1, 0>>
    /\ witness_out = <<TRUE, "bipartite", Tuple(<<"A", "B">>)>>

(***************************************************************************)
(* C8: for every product state |psiA> x |psiB> x |psiC> the result is      *)
(* (False, fully_separable, None).                                         *)
(***************************************************************************)
ProductIsSeparable ==
    (witness_in.kind = "product" /\ witness_out # NoResult) =>
        witness_out = <<FALSE, "fully_separable", NoTuple>>

\* a product of three superpositions, with complex amplitudes
SuperpositionProductDetected ==
    /\ witness_in.kind = "product"
    /\ witness_out = <<FALSE, "fully_separable", NoTuple>>
    /\ \A i \in Basis(3) : witness_in.sv[i] # CZero
    /\ \E i \in Basis(3) : witness_in.sv[i][2] # 0
    /\ \E i \in Basis(3) : witness_in.sv[i][1] # 0

(***************************************************************************)
(* C9: for the GHZ state (|000> + |111>)/sqrt 2 the result is              *)
(* (True, tripartite, (A, B, C)), and the rounded j4 = sqrt(i5) is not 0.  *)
(***************************************************************************)
RoundedJOfInput ==
    RoundedJ(witness_in.sv, 3, Pos(witness_in.order, "A"), Pos(witness_in.order, "B"),
             Pos(witness_in.order, "C"))

GHZIsTripartite ==
    (witness_in.kind = "ghz" /\ witness_out # NoResult) =>
        /\ witness_out = <<TRUE, "tripartite", Tuple(<<"A", "B", "C">>)>>
        /\ RoundedJOfInput[4] = 250000

GHZDetected ==
    /\ witness_in.kind = "ghz"
    /\ witness_in.sv[0] = <<1, 0>>
    /\ witness_in.sv[7] = <<1, 0>>
    /\ witness_out[2] = "tripartite"

(***************************************************************************)
(* C11: in DeutschJozsa with the oracle of a boolean function f, after all *)
(* 11 moments check_results is true if and only if f is constant.  As      *)
(* stated, for every boolean function f:                                   *)
(***************************************************************************)
BooleanFunctions == [0..3 -> {0, 1}]

IsConstant(f) == \A x \in 0..3 : f[x] = f[0]

IsBalanced(f) == Cardinality({x \in 0..3 : f[x] = 1}) = 2

AllMeasured == scenario = "DeutschJozsa" /\ sim_iter = 11

ConstantIffBothZero ==
    AllMeasured =>
        \A f \in BooleanFunctions :
            config.oracle = OracleOf(f) => (check_results <=> IsConstant(f))

(***************************************************************************)
(* C11, amended: the same for every f that is constant or balanced; true   *)
(* for the identity oracle "12345678", false for every balanced f.         *)
(***************************************************************************)
ConstantIffBothZeroUnderPromise ==
    AllMeasured =>
        /\ \A f \in BooleanFunctions :
              (config.oracle = OracleOf(f) /\ (IsConstant(f) \/ IsBalanced(f))) =>
                  (check_results <=> IsConstant(f))
        /\ config.oracle = <<1, 2, 3, 4, 5, 6, 7, 8>> => check_results

\* f(x1, x2) = x1 xor x2 has been run to the end and found not constant
BalancedRejected ==
    /\ AllMeasured
    /\ Exhausted
    /\ config.oracle = OracleOf([x \in 0..3 |-> (x \div 2 + x) % 2])
    /\ ~check_results

(***************************************************************************)
(* The Deutsch-Jozsa window: DeutschSequenceValidator and                  *)
(* DeutschJozsaWindow.create_simulator (src/src/simulationwindows.py)      *)
(***************************************************************************)
\* greatest number of characters added to a configuration string
MaxExtra == 1

\* greatest number of releases of the setup button
MaxClicks == 2

\* the characters "1" .. "8" of the classes [1-8]
DigitChars == <<"1", "2", "3", "4", "5", "6", "7", "8">>

Digits == {DigitChars[k] : k \in 1..8}

NewLine == "\n"

\* characters a text is made of
Alphabet == Digits \cup {"0", "9", "a", NewLine}

\* arg__1.count(x)
Count(text, x) == Cardinality({k \in 1..Len(text) : text[k] = x})

\* QRegularExpression("^[1-8]{8}$").match(text).hasMatch(): eight characters of the
\* class from the start, then the end of the text; $ is also satisfied just before a
\* line feed that ends the text
FullMatch(text) ==
    /\ Len(text) >= 8
    /\ \A k \in 1..8 : text[k] \in Digits
    /\ \/ Len(text) = 8
       \/ Len(text) = 9 /\ text[9] = NewLine

\* QRegularExpression("[1-8]*").match(text).hasMatch(): some run, possibly empty, of
\* characters of the class, anywhere in the text
PartialMatch(text) ==
    \E i \in 0..Len(text) : \E j \in i..Len(text) : \A k \in (i + 1)..j : text[k] \in Digits

\* DeutschSequenceValidator.validate(arg__1, arg__2)
validate(arg__1, arg__2) ==
    LET has_repeats == \E x \in Digits : Count(arg__1, x) > 1
    IN  IF ~FullMatch(arg__1)
        THEN IF PartialMatch(arg__1)
             THEN IF has_repeats THEN "Invalid" ELSE "Intermediate"
             ELSE "Invalid"
        ELSE IF has_repeats THEN "Invalid" ELSE "Acceptable"

\* int(c) of a one-character string: 0 for a character int() raises ValueError on
PyInt(c) ==
    IF c \in Digits THEN CHOOSE k \in 1..8 : DigitChars[k] = c
    ELSE IF c = "0" THEN 0
    ELSE IF c = "9" THEN 9
    ELSE -1

IntRaises(c) == PyInt(c) = -1

IncompleteMessage == "Ups, twoj ciag cyfr jest niepelny. Popraw go i sprobuj jeszcze raz."

\* the text of a configuration given by its digits
TextOf(digits) == [k \in 1..Len(digits) |-> DigitChars[digits[k]]]

BaseTexts == {TextOf(Swapped(1, 1)), TextOf(Swapped(1, 8)), TextOf(Swapped(3, 4))}

\* texts of the line edit: a configuration, cut short, with one character replaced,
\* or with characters added
Texts ==
    {SubSeq(t, 1, k) : t \in BaseTexts, k \in 0..8}
    \cup {[t EXCEPT ![k] = c] : t \in BaseTexts, k \in 1..8, c \in Alphabet}
    \cup UNION {{t \o e : t \in BaseTexts, e \in [1..n -> Alphabet]} : n \in 1..MaxExtra}

\* the window as shown, with some text in the line edit
InitWindow ==
    /\ IdleStepper
    /\ WitnessIdle
    /\ RoundedIdle
    /\ \E t \in Texts : \E setup, step_enabled \in BOOLEAN :
          window = [text |-> t, sim_set |-> FALSE, sim_oracle |-> <<>>,
                    setup_button |-> setup, step_button |-> step_enabled,
                    deutschSetup_visible |-> TRUE, log |-> <<>>, raised |-> "none",
                    clicks |-> 0]

\* DeutschJozsaWindow.create_simulator, the slot of the setup button
create_simulator ==
    /\ window # NoWindow
    /\ window.clicks < MaxClicks
    /\ LET text == window.text
           clicked == [window EXCEPT !.clicks = @ + 1, !.raised = "none"]
       IN  IF validate(text, 0) = "Acceptable"
           THEN IF \E k \in 1..Len(text) : IntRaises(text[k])
                THEN \* map(int, oracle_def_str) raises inside the list comprehension
                     window' = [clicked EXCEPT !.raised = "ValueError"]
                ELSE window' = [clicked EXCEPT
                                   !.sim_set = TRUE,
                                   !.sim_oracle = [k \in 1..Len(text) |-> PyInt(text[k])],
                                   !.setup_button = FALSE,
                                   !.step_button = TRUE,
                                   !.deutschSetup_visible = FALSE]
           ELSE window' = [clicked EXCEPT !.log = Append(@, IncompleteMessage)]
    /\ UNCHANGED <<stepper_vars, witness_vars, rounded_vars>>

NextWindow == create_simulator

SpecWindow == InitWindow /\ [][NextWindow]_vars


(***************************************************************************)
(* C12: create_simulator constructs a DeutschJozsa simulator only if       *)
(* validate returns Acceptable, which it does if and only if the text has  *)
(* exactly 8 characters, each one of 1 .. 8, none of them twice; for every *)
(* other text it leaves the simulator and the buttons as they are and only *)
(* adds the message to the log.                                            *)
(***************************************************************************)
WellFormed(text) ==
    /\ Len(text) = 8
    /\ \A k \in 1..8 : text[k] \in Digits
    /\ \A x \in Digits : Count(text, x) <= 1

ValidatorGuardsConstruction ==
    [][window' # window =>
          /\ (validate(window.text, 0) = "Acceptable") <=> WellFormed(window.text)
          /\ (window'.sim_set /\ ~window.sim_set) => validate(window.text, 0) = "Acceptable"
          /\ ~WellFormed(window.text) =>
                /\ window'.sim_set = window.sim_set
                /\ window'.sim_oracle = window.sim_oracle
                /\ window'.setup_button = window.setup_button
                /\ window'.step_button = window.step_button
                /\ window'.deutschSetup_visible = window.deutschSetup_visible
                /\ window'.log = Append(window.log, IncompleteMessage)
                /\ window'.raised = "none"]_vars

\* the identity configuration followed by a line feed went past the validator
LineFeedTextAccepted ==
    /\ window.text = TextOf(Swapped(1, 1)) \o <<NewLine>>
    /\ window.clicks = 1
    /\ window.raised = "ValueError"
    /\ window.log = <<>>


(***************************************************************************)
(* C13: the entangled set of an emitted triple is a snapshot: what an      *)
(* already emitted set contains does not change when step() is called      *)
(* again.                                                                  *)
(***************************************************************************)
EmittedSetsAreSnapshots ==
    [][\A k \in 1..Len(emitted) : ContentsNow(emitted[k])' = ContentsNow(emitted[k])]_vars

\* teleportation: the set yielded by the third step held alice and bob, and holds
\* something else after a later step
EmittedSetChanged ==
    /\ scenario = "QuantumTeleportation"
    /\ Len(emitted) >= 4
    /\ emitted[3].entangled = {"alice", "bob"}
    /\ ContentsNow(emitted[3]) # emitted[3].entangled


(***************************************************************************)
(* The stepper with witnesses that report nothing about measured qubits    *)
(***************************************************************************)
\* the qubits measured in the first k moments
MeasuredBy(sc, k) == {measurements(sc)[j] : j \in 1..k} \cap QubitSet(sc)

\* the qubits the witness function reported as entangled when detect_entanglement
\* returns v: SimpleEntanglement returns (alice, ()) when detect_entanglement_bipartite
\* reports none, the other scenarios return the tuple of the tripartite witness or None
WitnessReports(sc, v) ==
    IF v.isNone \/ (sc = "SimpleEntanglement" /\ v = Tuple(<<"alice", PyEmptyTuple>>))
    THEN {}
    ELSE {v.items[k] : k \in 1..Len(v.items)}

\* the results of detect_entanglement in the k-th step whose witness reports no qubit
\* measured in that step or before it
UnmeasuredVerdicts(sc, k) ==
    {v \in Verdicts(sc) : WitnessReports(sc, v) \cap MeasuredBy(sc, k) = {}}

step_unmeasured ==
    /\ sim_iter < Len(Circuit(scenario, config))
    /\ stops < MaxStops
    /\ LET moment == Circuit(scenario, config)[sim_iter + 1]
           order == qubit_order(scenario)
       IN  \E bs \in MomentOutcomes(moment, sim_state, order) :
              /\ StepRecord(ApplyMoment(moment, sim_state, order, bs, 1))
              /\ measurement_log' = LogMeasurements(measurement_log, moment, bs, 1)
              /\ \E entangled \in UnmeasuredVerdicts(scenario, sim_iter + 1) :
                    StepTrack(entangled)
    /\ UNCHANGED <<witness_vars, rounded_vars, window>>

NextUnmeasured == step_unmeasured \/ step_exhausted

SpecUnmeasured == InitFree /\ [][NextUnmeasured]_vars

(***************************************************************************)
(* C14: if the witness functions report no entanglement involving a qubit  *)
(* in or after the step that measures it, the entangled set is empty once  *)
(* the stepper is exhausted, whatever the earlier verdicts were.           *)
(***************************************************************************)
EmptyWhenExhausted == Exhausted => currently_entangled = {}

\* SimpleEntanglement was stepped to the end, the witness reporting no entanglement in
\* the two measuring steps, and the set is left with alice and ()
SimpleEndsNonEmpty ==
    /\ scenario = "SimpleEntanglement"
    /\ Exhausted
    /\ Len(emitted) = 6
    /\ currently_entangled = {"alice", PyEmptyTuple}


=============================================================================
